---- MODULE Spec2Model ----
(***************************************************************************)
(* A model of d_rats/mainwindow.py: the MainWindow mediator.  The state is *)
(* the fields of MainWindow and of the widgets it drives (status bar, call *)
(* bar, title, urgency hint), one action per signal handler, and a log of  *)
(* the outbound calls the most recent handler made, in order.              *)
(***************************************************************************)
EXTENDS Integers, Sequences, FiniteSets, TLC

VARIABLES
    tabs,          \* self.tabs: key -> whether the tab counts as selected
    current_tab,   \* self._current_tab
    last_status,   \* self.__last_status
    statusbar,     \* message stack of the "statusbar" widget, context "default"
    callbar,       \* message stack of the "callbar" widget, context 0
    title,         \* title of self._window
    callsign,      \* config ("user", "callsign")
    urgency,       \* urgency hint of self._window
    active,        \* self._window.is_active()
    now,           \* time.time()
    next_tick,     \* due time of the GLib timeout running __update_status
    default_size,  \* default size of self._window
    running,       \* whether application.quit() has not been called
    op,            \* the most recent handler invocation and its inputs
    calls          \* the outbound calls that handler made, in order

vars == <<tabs, current_tab, last_status, statusbar, callbar, title, callsign,
          urgency, active, now, next_tick, default_size, running, op, calls>>

tabvars    == <<tabs, current_tab>>
statusvars == <<last_status, statusbar, callbar, title>>
focusvars  == <<urgency, active>>
timevars   == <<now, next_tick>>
exitvars   == <<default_size, running>>

----------------------------------------------------------------------------
(* Program constants *)

\* GLib.timeout_add(3000, ...): the tick period, in seconds
TickInterval == 3

\* (time.time() - self.__last_status) > 30
StaleAfter == 30

\* the keys registered in self.tabs
TabKeys == {"chat", "messages", "event", "files", "stations"}

\* tab_labels with a fifth entry for the station list
tab_labels_with_stations == <<"messages", "chat", "files", "event", "stations">>

\* tab_labels of _page_name
tab_labels == <<"messages", "chat", "files", "event">>

----------------------------------------------------------------------------
(* Bounds *)

\* page indexes a switch-page event may carry: 0 .. MaxPage
MaxPage == 4

\* the clock runs from StartTime to StartTime + Horizon
Horizon == 36

\* the clock of the whole-program specification runs to StartTime + ShortHorizon
ShortHorizon == 3

\* time.time() at construction: seconds since the epoch, far more than 30
StartTime == StaleAfter + 1

Msgs == {"Connected", "Sent"}
Callsigns == {"N0CALL", "W1AW"}

----------------------------------------------------------------------------
(* Widgets *)

\* Gtk.Statusbar.pop: removes the top message of the context, if there is one
Pop(stack) == IF stack = <<>> THEN stack ELSE SubSeq(stack, 1, Len(stack) - 1)

\* Gtk.Statusbar.push: the message goes on top of the stack
Push(stack, msg) == Append(stack, msg)

\* what a status bar shows: the top of its stack, nothing when it is empty
Visible(stack) == IF stack = <<>> THEN "" ELSE stack[Len(stack)]

----------------------------------------------------------------------------
Init ==
    /\ tabs = [k \in TabKeys |-> FALSE]
    /\ current_tab = "messages"
    /\ last_status = 0
    /\ statusbar = <<>>
    /\ callbar = <<>>
    /\ title = ""
    /\ callsign \in Callsigns
    /\ urgency = FALSE
    /\ active \in BOOLEAN
    /\ now = StartTime
    /\ next_tick = StartTime + TickInterval
    /\ default_size = "config"
    /\ running = TRUE
    /\ op = [name |-> "__init__"]
    /\ calls = <<>>

----------------------------------------------------------------------------
(* Tab lifecycle *)

\* _page_name: tab_labels[index]; Python raises IndexError past the table
_page_name(index) ==
    IF index \in 0..(Len(tab_labels) - 1) THEN tab_labels[index + 1]
    ELSE "IndexError"

\* _tab_switched telling the incoming tab before the outgoing one
_tab_switched_select_first(page_num) ==
    LET tab == _page_name(page_num) IN
    /\ running
    /\ op' = [name |-> "_tab_switched", page_num |-> page_num,
              old |-> current_tab]
    /\ IF tab = "IndexError"
       THEN /\ calls' = << <<"raise", "IndexError">> >>
            /\ UNCHANGED tabvars
       ELSE /\ calls' = << <<"selected", tab>>, <<"deselected", current_tab>> >>
            /\ current_tab' = tab
            /\ tabs' = [[tabs EXCEPT ![tab] = TRUE] EXCEPT ![current_tab] = FALSE]
    /\ UNCHANGED <<statusvars, callsign, focusvars, timevars, exitvars>>

\* _tab_switched(page_num)
_tab_switched(page_num) ==
    LET tab == _page_name(page_num) IN
    /\ running
    /\ op' = [name |-> "_tab_switched", page_num |-> page_num,
              old |-> current_tab]
    /\ IF tab = "IndexError"
       THEN /\ calls' = << <<"raise", "IndexError">> >>
            /\ UNCHANGED tabvars
       ELSE /\ calls' = << <<"deselected", current_tab>>, <<"selected", tab>> >>
            /\ current_tab' = tab
            /\ tabs' = [[tabs EXCEPT ![current_tab] = FALSE] EXCEPT ![tab] = TRUE]
    /\ UNCHANGED <<statusvars, callsign, focusvars, timevars, exitvars>>

----------------------------------------------------------------------------
(* Notification routing and focus *)

\* self._config.get("sounds", key): the tab's configured sound resource
soundf(key) == "sounds." \o key

\* _maybe_blink without the "event" exclusion
_maybe_blink_event_sound(key, blink, sound_enabled) ==
    LET hint   == blink /\ ~active
        sounde == sound_enabled
    IN
    /\ running
    /\ op' = [name |-> "_maybe_blink", key |-> key, blink |-> blink,
              sound_enabled |-> sound_enabled, was_active |-> active,
              was_urgent |-> urgency]
    /\ urgency' = IF hint THEN TRUE ELSE urgency
    /\ calls' = (IF hint THEN << <<"set_urgency_hint", "True">> >> ELSE <<>>)
                \o (IF sounde THEN << <<"play_sound", soundf(key)>> >> ELSE <<>>)
    /\ UNCHANGED <<tabvars, statusvars, callsign, active, timevars, exitvars>>

\* _maybe_blink without the is_active() test
_maybe_blink_any_focus(key, blink, sound_enabled) ==
    LET hint   == blink
        sounde == IF key = "event" THEN FALSE ELSE sound_enabled
    IN
    /\ running
    /\ op' = [name |-> "_maybe_blink", key |-> key, blink |-> blink,
              sound_enabled |-> sound_enabled, was_active |-> active,
              was_urgent |-> urgency]
    /\ urgency' = IF hint THEN TRUE ELSE urgency
    /\ calls' = (IF hint THEN << <<"set_urgency_hint", "True">> >> ELSE <<>>)
                \o (IF sounde THEN << <<"play_sound", soundf(key)>> >> ELSE <<>>)
    /\ UNCHANGED <<tabvars, statusvars, callsign, active, timevars, exitvars>>

\* _maybe_blink playing the sound only when it also sets the hint
_maybe_blink_sound_with_hint(key, blink, sound_enabled) ==
    LET hint   == blink /\ ~active
        sounde == IF key = "event" THEN FALSE ELSE sound_enabled /\ hint
    IN
    /\ running
    /\ op' = [name |-> "_maybe_blink", key |-> key, blink |-> blink,
              sound_enabled |-> sound_enabled, was_active |-> active,
              was_urgent |-> urgency]
    /\ urgency' = IF hint THEN TRUE ELSE urgency
    /\ calls' = (IF hint THEN << <<"set_urgency_hint", "True">> >> ELSE <<>>)
                \o (IF sounde THEN << <<"play_sound", soundf(key)>> >> ELSE <<>>)
    /\ UNCHANGED <<tabvars, statusvars, callsign, active, timevars, exitvars>>

\* _maybe_blink raising the tab that sent the notice
_maybe_blink_raises_tab(key, blink, sound_enabled) ==
    LET hint   == blink /\ ~active
        sounde == IF key = "event" THEN FALSE ELSE sound_enabled
    IN
    /\ running
    /\ op' = [name |-> "_maybe_blink", key |-> key, blink |-> blink,
              sound_enabled |-> sound_enabled, was_active |-> active,
              was_urgent |-> urgency]
    /\ urgency' = IF hint THEN TRUE ELSE urgency
    /\ calls' = (IF hint THEN << <<"set_urgency_hint", "True">> >> ELSE <<>>)
                \o (IF sounde THEN << <<"play_sound", soundf(key)>> >> ELSE <<>>)
    /\ current_tab' = key
    /\ UNCHANGED <<tabs, statusvars, callsign, active, timevars, exitvars>>

\* _maybe_blink(_tab, key); blink and sound_enabled are what the configuration
\* holds under ("prefs", "blink_<key>") and ("sounds", "<key>_enabled")
_maybe_blink(key, blink, sound_enabled) ==
    LET hint   == blink /\ ~active
        sounde == IF key = "event" THEN FALSE ELSE sound_enabled
    IN
    /\ running
    /\ op' = [name |-> "_maybe_blink", key |-> key, blink |-> blink,
              sound_enabled |-> sound_enabled, was_active |-> active,
              was_urgent |-> urgency]
    /\ urgency' = IF hint THEN TRUE ELSE urgency
    /\ calls' = (IF hint THEN << <<"set_urgency_hint", "True">> >> ELSE <<>>)
                \o (IF sounde THEN << <<"play_sound", soundf(key)>> >> ELSE <<>>)
    /\ UNCHANGED <<tabvars, statusvars, callsign, active, timevars, exitvars>>

\* _got_focus leaving the urgency hint as it is
_got_focus_keeps_hint ==
    /\ running
    /\ op' = [name |-> "_got_focus", was_urgent |-> urgency]
    /\ active' = TRUE
    /\ calls' = <<>>
    /\ UNCHANGED <<tabvars, statusvars, callsign, urgency, timevars, exitvars>>

\* _got_focus: the window gains the focus and its focus-in-event is delivered
_got_focus ==
    /\ running
    /\ op' = [name |-> "_got_focus", was_urgent |-> urgency]
    /\ active' = TRUE
    /\ urgency' = FALSE
    /\ calls' = << <<"set_urgency_hint", "False">> >>
    /\ UNCHANGED <<tabvars, statusvars, callsign, timevars, exitvars>>

\* the window loses the focus; no handler is connected to that event
focus_out ==
    /\ running
    /\ active
    /\ op' = [name |-> "focus_out"]
    /\ active' = FALSE
    /\ calls' = <<>>
    /\ UNCHANGED <<tabvars, statusvars, callsign, urgency, timevars, exitvars>>

----------------------------------------------------------------------------
(* Status bar *)

\* set_status pushing without popping first
set_status_no_pop(msg) ==
    /\ running
    /\ op' = [name |-> "set_status", msg |-> msg, before |-> statusbar]
    /\ last_status' = now
    /\ statusbar' = Push(statusbar, msg)
    /\ title' = "D-RATS: " \o callsign
    /\ callbar' = Push(Pop(callbar), callsign)
    /\ calls' = <<>>
    /\ UNCHANGED <<tabvars, callsign, focusvars, timevars, exitvars>>

\* set_status(msg)
set_status(msg) ==
    /\ running
    /\ op' = [name |-> "set_status", msg |-> msg, before |-> statusbar]
    /\ last_status' = now
    /\ statusbar' = Push(Pop(statusbar), msg)
    /\ title' = "D-RATS: " \o callsign
    /\ callbar' = Push(Pop(callbar), callsign)
    /\ calls' = <<>>
    /\ UNCHANGED <<tabvars, callsign, focusvars, timevars, exitvars>>

\* the staleness test with >= for >
Stale_at_threshold == (now - last_status) >= StaleAfter

\* whether __update_status finds the status message stale
Stale == (now - last_status) > StaleAfter

\* __update_status returning True only from the branch that clears
UpdateStatusReturn_when_stale == Stale

\* what __update_status returns: True in every branch, so GLib keeps the timeout
UpdateStatusReturn == TRUE

\* __update_status restarting the staleness period
__update_status_resets_timestamp ==
    /\ running
    /\ now = next_tick
    /\ op' = [name |-> "__update_status", age |-> now - last_status,
              before |-> statusbar]
    /\ statusbar' = IF Stale THEN Pop(statusbar) ELSE statusbar
    /\ last_status' = IF Stale THEN now ELSE last_status
    /\ next_tick' = IF UpdateStatusReturn THEN now + TickInterval ELSE 0
    /\ calls' = <<>>
    /\ UNCHANGED <<tabvars, callbar, title, callsign, focusvars, now, exitvars>>

\* __update_status, run by the GLib timeout when it is due
__update_status ==
    /\ running
    /\ now = next_tick
    /\ op' = [name |-> "__update_status", age |-> now - last_status,
              before |-> statusbar]
    /\ statusbar' = IF Stale THEN Pop(statusbar) ELSE statusbar
    /\ next_tick' = IF UpdateStatusReturn THEN now + TickInterval ELSE 0
    /\ calls' = <<>>
    /\ UNCHANGED <<tabvars, last_status, callbar, title, callsign, focusvars, now, exitvars>>

\* a second passes; a due timeout runs before the clock moves on
Advance(horizon) ==
    /\ running
    /\ now < StartTime + horizon
    /\ next_tick = 0 \/ now < next_tick
    /\ now' = now + 1
    /\ UNCHANGED <<tabvars, statusvars, callsign, focusvars, next_tick, exitvars, op, calls>>

----------------------------------------------------------------------------
(* Menu actions *)

\* _activate_dq sending on any response of the dialog
_activate_dq_any_response(run_status, d_text, port) ==
    /\ running
    /\ op' = [name |-> "_activate_dq", run_status |-> run_status,
              d_text |-> d_text, port |-> port]
    /\ calls' = << <<"get-chat-port">>,
                   <<"user-send-chat", "CQCQCQ", port,
                     "?D*" \o d_text \o "?", "True">> >>
    /\ UNCHANGED <<tabvars, statusvars, callsign, focusvars, timevars, exitvars>>

\* _activate_dq: run_status and d_text are what the dialog returned, port the
\* reply to get-chat-port
_activate_dq(run_status, d_text, port) ==
    /\ running
    /\ op' = [name |-> "_activate_dq", run_status |-> run_status,
              d_text |-> d_text, port |-> port]
    /\ calls' = IF run_status = "OK"
                THEN << <<"get-chat-port">>,
                        <<"user-send-chat", "CQCQCQ", port,
                          "?D*" \o d_text \o "?", "True">> >>
                ELSE <<>>
    /\ UNCHANGED <<tabvars, statusvars, callsign, focusvars, timevars, exitvars>>

\* the argument list with the platform test inverted
ProxyArgs_inverted(platform, exists) ==
    (IF platform = "darwin" THEN <<>> ELSE <<"python">>)
    \o (IF exists THEN <<"./d-rats_repeater">> ELSE <<"d-rats_repeater">>)

\* the argument list _activate_proxy builds; sys.executable is "python"
ProxyArgs(platform, exists) ==
    (IF platform # "darwin" THEN <<>> ELSE <<"python">>)
    \o (IF exists THEN <<"./d-rats_repeater">> ELSE <<"d-rats_repeater">>)

\* _activate_proxy: platform is sys.platform, exists is
\* os.path.exists("./d-rats_repeater"), spawned whether Popen started the process
_activate_proxy(platform, exists, spawned) ==
    LET args == ProxyArgs(platform, exists) IN
    /\ running
    /\ op' = [name |-> "_activate_proxy", platform |-> platform,
              exists |-> exists, spawned |-> spawned]
    /\ calls' = << <<"logger.info">> \o args, <<"Popen">> \o args >>
                \o (IF spawned THEN <<>> ELSE << <<"raise", "OSError">> >>)
    /\ UNCHANGED <<tabvars, statusvars, callsign, focusvars, timevars, exitvars>>

----------------------------------------------------------------------------
(* Exit *)

\* _delete going on to quit whatever the user answered
Proceeds_always(confirm_exit, accept) == TRUE

\* whether _delete goes on to quit: the confirmation is asked only when
\* ("prefs", "confirm_exit") is set, and a refusal returns early
Proceeds(confirm_exit, accept) == ~confirm_exit \/ accept

\* the calls of _delete: the prompt when confirm_exit is set, then, unless the
\* user refused, window.set_default_size(*window.get_size()) and quit()
DeleteCalls(confirm_exit, accept, size) ==
    (IF confirm_exit THEN << <<"ask_for_confirmation">> >> ELSE <<>>)
    \o (IF Proceeds(confirm_exit, accept)
        THEN << <<"set_default_size", size>>, <<"quit">> >>
        ELSE <<>>)

\* _delete, the delete_event handler; size is window.get_size()
_delete(confirm_exit, accept, size) ==
    /\ running
    /\ op' = [name |-> "_delete", confirm_exit |-> confirm_exit,
              accept |-> accept, size |-> size, before |-> default_size]
    /\ calls' = DeleteCalls(confirm_exit, accept, size)
    /\ default_size' = IF Proceeds(confirm_exit, accept) THEN size
                       ELSE default_size
    /\ running' = ~Proceeds(confirm_exit, accept)
    /\ UNCHANGED <<tabvars, statusvars, callsign, focusvars, timevars>>

\* _activate_save_and_quit, the Quit menu action: it sets the default size and
\* then runs _delete
_activate_save_and_quit(confirm_exit, accept, size) ==
    /\ running
    /\ op' = [name |-> "_activate_save_and_quit", confirm_exit |-> confirm_exit,
              accept |-> accept, size |-> size, before |-> default_size]
    /\ calls' = << <<"set_default_size", size>> >>
                \o DeleteCalls(confirm_exit, accept, size)
    /\ default_size' = size
    /\ running' = ~Proceeds(confirm_exit, accept)
    /\ UNCHANGED <<tabvars, statusvars, callsign, focusvars, timevars>>

----------------------------------------------------------------------------
(* Preferences and ping *)

\* self.tabs in insertion order, the order of self.tabs.values()
tab_order == <<"chat", "messages", "event", "files", "stations">>

\* _activate_prefs reconfiguring only the tabs of the notebook pages
PrefsCalls_pages_only ==
    << <<"config-changed">> >>
    \o [i \in 1..Len(tab_labels) |-> <<"reconfigure", tab_labels[i]>>]

\* the calls of _activate_prefs once the dialog reported the configuration saved
PrefsCalls ==
    << <<"config-changed">> >>
    \o [i \in 1..Len(tab_order) |-> <<"reconfigure", tab_order[i]>>]

\* _activate_prefs: saved is what self._config.show() returned, new_callsign
\* the callsign the configuration holds after a save
_activate_prefs(saved, new_callsign) ==
    /\ running
    /\ op' = [name |-> "_activate_prefs", saved |-> saved,
              old_callsign |-> callsign]
    /\ callsign' = IF saved THEN new_callsign ELSE callsign
    /\ calls' = IF saved THEN PrefsCalls ELSE <<>>
    /\ UNCHANGED <<tabvars, statusvars, focusvars, timevars, exitvars>>

\* stations of _activate_ping: the stations of every port of the mapping, in
\* the order of station_list.values()
RECURSIVE AllStations(_)
AllStations(station_list) ==
    IF station_list = <<>> THEN <<>>
    ELSE Head(station_list)[2] \o AllStations(Tail(station_list))

\* _activate_ping emitting ping-station whatever the prompt returned
PingCalls_unconditional(station_list, station, port) ==
    << <<"get-station-list">>,
       <<"prompt_for_station">> \o AllStations(station_list),
       <<"ping-station", station, port>> >>

\* the calls of _activate_ping: station "" stands for the None the prompt
\* returns when no station is picked
PingCalls(station_list, station, port) ==
    << <<"get-station-list">>,
       <<"prompt_for_station">> \o AllStations(station_list) >>
    \o (IF station # "" THEN << <<"ping-station", station, port>> >> ELSE <<>>)

\* _activate_ping: station_list is the reply to get-station-list, a sequence
\* of <<port, stations>>; station and port are what prompt_for_station returned
_activate_ping(station_list, station, port) ==
    /\ running
    /\ op' = [name |-> "_activate_ping", station_list |-> station_list,
              station |-> station, port |-> port]
    /\ calls' = PingCalls(station_list, station, port)
    /\ UNCHANGED <<tabvars, statusvars, callsign, focusvars, timevars, exitvars>>

----------------------------------------------------------------------------
(* Inputs *)

RunStatuses == {"OK", "CANCEL", "DELETE_EVENT"}
Texts == {"", "ABC", "?", "*", "A?D*B"}
Ports == {"DEFAULT", "RF1"}
Platforms == {"darwin", "linux", "win32"}
Sizes == {"800x600"}
StationLists == { <<>>,
                  << <<"DEFAULT", <<"W1AW", "K2ABC">> >>,
                     <<"RF1", <<"N3XYZ">> >> >> }
Stations == {"", "W1AW", "N3XYZ"}

----------------------------------------------------------------------------
(* Specifications *)

TabEvents ==
    \E page_num \in 0..MaxPage : _tab_switched(page_num)

NoticeEventsOf(keys) ==
    \/ \E key \in keys, blink \in BOOLEAN, sound_enabled \in BOOLEAN :
          _maybe_blink(key, blink, sound_enabled)
    \/ _got_focus
    \/ focus_out

NoticeEvents == NoticeEventsOf(TabKeys)

StatusEventsOf(msgs, horizon) ==
    \/ \E msg \in msgs : set_status(msg)
    \/ __update_status
    \/ Advance(horizon)

StatusEvents(horizon) == StatusEventsOf(Msgs, horizon)

MenuEventsOf(texts, ports, platforms, station_lists, stations) ==
    \/ \E run_status \in RunStatuses, d_text \in texts, port \in ports :
          _activate_dq(run_status, d_text, port)
    \/ \E platform \in platforms, exists \in BOOLEAN, spawned \in BOOLEAN :
          _activate_proxy(platform, exists, spawned)
    \/ \E saved \in BOOLEAN, new_callsign \in Callsigns :
          _activate_prefs(saved, new_callsign)
    \/ \E station_list \in station_lists, station \in stations, port \in ports :
          _activate_ping(station_list, station, port)

MenuEvents == MenuEventsOf(Texts, Ports, Platforms, StationLists, Stations)

ExitEvents ==
    \/ \E confirm_exit \in BOOLEAN, accept \in BOOLEAN, size \in Sizes :
          _delete(confirm_exit, accept, size)
    \/ \E confirm_exit \in BOOLEAN, accept \in BOOLEAN, size \in Sizes :
          _activate_save_and_quit(confirm_exit, accept, size)

\* the whole program: every handler, each with a few of its inputs, and a
\* clock that reaches the first ticks
Next ==
    \/ TabEvents
    \/ NoticeEventsOf({"chat", "event"})
    \/ StatusEventsOf({"Connected"}, ShortHorizon)
    \/ MenuEventsOf({"ABC"}, {"DEFAULT"}, {"linux"},
                    { << <<"DEFAULT", <<"W1AW">> >> >> }, {"", "W1AW"})
    \/ ExitEvents

Spec == Init /\ [][Next]_vars

\* the tabs, the notices and the menu actions
NextUI == TabEvents \/ NoticeEvents \/ MenuEvents \/ ExitEvents

SpecUI == Init /\ [][NextUI]_vars

\* the status bar and the clock
NextStatus == StatusEvents(Horizon)

SpecStatus == Init /\ [][NextStatus]_vars

\* the status bar under the scheduling of the GLib main loop: the clock runs, a
\* due timeout is run; set_status is called early enough for the clock of the
\* model to reach the tick that follows its expiry
LiveNextStatus ==
    \/ \E msg \in Msgs :
          /\ now + StaleAfter + TickInterval <= StartTime + Horizon
          /\ set_status(msg)
    \/ __update_status
    \/ Advance(Horizon)

LiveStatus ==
    /\ Init
    /\ [][LiveNextStatus]_vars
    /\ WF_vars(__update_status)
    /\ WF_vars(Advance(Horizon))

----------------------------------------------------------------------------
(* Properties *)

\* the lifecycle calls of the log, in order
LifecycleCalls == SelectSeq(calls, LAMBDA c : c[1] \in {"selected", "deselected"})

\* whether the log holds a call of that name
Called(fn) == \E i \in 1..Len(calls) : calls[i][1] = fn

\* the set of tabs that count as selected
SelectedTabs == {k \in TabKeys : tabs[k]}

\* C1: a page-activated event whose index resolves to a key other than the
\* current one calls deselected() on the tab that was current, then selected()
\* on the tab that is current afterwards, which is the resolved key; these are
\* the only two lifecycle calls, one each, in that order.
C1_SwitchDeselectsThenSelects ==
    (/\ op.name = "_tab_switched"
     /\ _page_name(op.page_num) \in TabKeys
     /\ _page_name(op.page_num) # op.old)
    => /\ current_tab = _page_name(op.page_num)
       /\ calls = << <<"deselected", op.old>>, <<"selected", current_tab>> >>
       /\ SelectedTabs = {current_tab}

C1_Witness ==
    /\ op.name = "_tab_switched"
    /\ op.old = "chat"
    /\ _page_name(op.page_num) = "files"
    /\ Len(calls) = 2

\* C2: a page-activated event whose index resolves to the key that is already
\* current makes no lifecycle call and leaves the current key unchanged.
C2_SameKeyIsSkipped ==
    (/\ op.name = "_tab_switched"
     /\ _page_name(op.page_num) = op.old)
    => /\ LifecycleCalls = <<>>
       /\ current_tab = op.old

\* C3: in every reachable state exactly one tab key is current, it is a key of
\* the registry, it is "messages" after construction, and exactly one tab
\* counts as selected (selected() received, no deselected() since).
C3_ExactlyOneSelected ==
    /\ current_tab \in TabKeys
    /\ op.name = "__init__" => current_tab = "messages"
    /\ Cardinality(SelectedTabs) = 1

\* C4: the status region never holds more than one message, and after
\* set_status(X) the visible status text is X, whatever was visible before.
C4_OneStatusMessage ==
    /\ Len(statusbar) <= 1
    /\ op.name = "set_status" => Visible(statusbar) = op.msg

C4_Witness ==
    /\ op.name = "set_status"
    /\ op.before # <<>>
    /\ Visible(op.before) # op.msg
    /\ statusbar = <<op.msg>>

\* C5: with the timeout running, a status message set at time T and not set
\* again is eventually cleared; it is cleared only by a tick at or after
\* T + 30, a tick that finds the text cleared leaves it cleared, and the
\* handler keeps the timeout scheduled whichever branch it takes.
C5_StaleStatusIsCleared ==
    /\ \A t \in StartTime..(StartTime + Horizon + 1) :
          (statusbar # <<>> /\ last_status = t)
             ~> (statusbar = <<>> \/ last_status # t)
    /\ [][(statusbar # <<>> /\ statusbar' = <<>>)
             => (/\ next_tick' # next_tick
                 /\ now >= last_status + StaleAfter)]_vars
    /\ [][(next_tick' # next_tick /\ statusbar = <<>>)
             => statusbar' = <<>>]_vars
    /\ [](next_tick >= now)

C5_Witness ==
    /\ op.name = "__update_status"
    /\ op.before # <<>>
    /\ statusbar = <<>>
    /\ now > last_status + StaleAfter

\* C6: a tick at which now - status_timestamp is at most 30 leaves the visible
\* status text exactly as it was.
C6_NoEarlyClear ==
    (op.name = "__update_status" /\ op.age <= StaleAfter)
    => statusbar = op.before

C6_Witness ==
    /\ op.name = "__update_status"
    /\ op.age = StaleAfter
    /\ op.before # <<>>
    /\ statusbar = op.before

\* C7: a notice of the "event" tab never requests sound playback, whatever the
\* sound-enabled flag, the urgency flag and the focus are.
C7_EventNeverPlaysSound ==
    (op.name = "_maybe_blink" /\ op.key = "event") => ~Called("play_sound")

C7_Witness ==
    /\ op.name = "_maybe_blink"
    /\ op.key = "event"
    /\ op.sound_enabled
    /\ op.blink
    /\ ~op.was_active
    /\ ~Called("play_sound")

\* C8: a notice sets the urgency hint if and only if the tab's urgency-enabled
\* flag is true and the window is not active at the call; a focus-in event
\* clears the hint whatever it was.
C8_UrgencyIffBlinkAndUnfocused ==
    /\ op.name = "_maybe_blink" =>
          /\ Called("set_urgency_hint") <=> (op.blink /\ ~op.was_active)
          /\ Called("set_urgency_hint") =>
                (<<"set_urgency_hint", "True">> = calls[1] /\ urgency)
          /\ ~Called("set_urgency_hint") => urgency = op.was_urgent
    /\ op.name = "_got_focus" =>
          /\ ~urgency
          /\ calls = << <<"set_urgency_hint", "False">> >>

C8_Witness ==
    /\ op.name = "_got_focus"
    /\ op.was_urgent
    /\ ~urgency

\* the state a menu action leaves alone
appvars == <<tabs, current_tab, last_status, statusbar, callbar, title,
             callsign, urgency, active, now, next_tick, default_size, running>>

\* C9: confirming the send-query dialog requests get-chat-port and then emits
\* exactly one user-send-chat("CQCQCQ", p, "?D*" + t + "?", true), p the reply
\* and t the raw text; any other response emits nothing; no state changes.
C9_QueryPayload ==
    /\ [](op.name = "_activate_dq" =>
            IF op.run_status = "OK"
            THEN /\ calls = << <<"get-chat-port">>,
                               <<"user-send-chat", "CQCQCQ", op.port,
                                 "?D*" \o op.d_text \o "?", "True">> >>
                 /\ op.d_text = "ABC" => calls[2][4] = "?D*ABC?"
                 /\ op.d_text = "" => calls[2][4] = "?D*?"
            ELSE calls = <<>>)
    /\ [][(op'.name = "_activate_dq" /\ <<op, calls>>' # <<op, calls>>)
             => UNCHANGED appvars]_vars

C9_Witness ==
    /\ op.name = "_activate_dq"
    /\ op.run_status = "OK"
    /\ op.d_text = "A?D*B"
    /\ Len(calls) = 2
    /\ calls[2][4] = "?D*A?D*B?"

\* C10: the argument list of launch_proxy has one element, the binary, off the
\* mac platform and two, the interpreter first, on it; the binary is
\* "./d-rats_repeater" when that path exists and "d-rats_repeater" otherwise.
C10_ProxyArgs ==
    op.name = "_activate_proxy" =>
        LET args   == Tail(calls[2])
            binary == IF op.exists THEN "./d-rats_repeater"
                      ELSE "d-rats_repeater"
        IN  /\ calls[2][1] = "Popen"
            /\ IF op.platform = "darwin"
               THEN args = <<"python", binary>>
               ELSE args = <<binary>>

C10_Witness ==
    /\ op.name = "_activate_proxy"
    /\ op.platform = "darwin"
    /\ ~op.exists
    /\ Tail(calls[2]) = <<"python", "d-rats_repeater">>

\* how many calls of the log are that call
Count(call) == Cardinality({i \in 1..Len(calls) : calls[i] = call})

\* whether the last handler was an exit request
ExitRequested == op.name \in {"_delete", "_activate_save_and_quit"}

\* C11: on an exit request, by the window or by the Quit menu action, quit is
\* invoked if and only if confirm-exit is false or the user accepts; when it
\* is, the window geometry is recorded before the quit call; confirm-exit
\* false shows no prompt; otherwise the window stays running.
C11_QuitIffConfirmed ==
    ExitRequested =>
        LET proceeds == ~op.confirm_exit \/ op.accept IN
        /\ Count(<<"quit">>) = (IF proceeds THEN 1 ELSE 0)
        /\ running = ~proceeds
        /\ proceeds =>
              /\ calls[Len(calls)] = <<"quit">>
              /\ calls[Len(calls) - 1] = <<"set_default_size", op.size>>
              /\ default_size = op.size
        /\ Called("ask_for_confirmation") <=> op.confirm_exit

C11_Witness ==
    /\ op.name = "_activate_save_and_quit"
    /\ op.confirm_exit
    /\ op.accept
    /\ ~running
    /\ calls[Len(calls)] = <<"quit">>

\* C12: _activate_proxy logs the argument list, spawns, and returns normally
\* whether or not the spawn succeeded: no error is raised.
C12_LaunchFailureIsSilent ==
    op.name = "_activate_proxy" =>
        /\ Len(calls) = 2
        /\ calls[1][1] = "logger.info"
        /\ calls[2][1] = "Popen"
        /\ ~Called("raise")

\* C13: when the preferences dialog reports the configuration saved,
\* config-changed is emitted once and then reconfigure() is called once on
\* every tab of the registry; when it reports not saved, nothing is called.
C13_PrefsReconfigureEveryTab ==
    op.name = "_activate_prefs" =>
        IF op.saved
        THEN /\ calls[1] = <<"config-changed">>
             /\ Count(<<"config-changed">>) = 1
             /\ \A k \in TabKeys : Count(<<"reconfigure", k>>) = 1
             /\ Len(calls) = 1 + Cardinality(TabKeys)
        ELSE calls = <<>>

C13_Witness ==
    /\ op.name = "_activate_prefs"
    /\ op.saved
    /\ Count(<<"reconfigure", "stations">>) = 1
    /\ callsign # op.old_callsign

\* C14: when the user declines the exit confirmation, on either entry path,
\* quit is not invoked, no window geometry is recorded and no state changes.
C14_DeclineChangesNothing ==
    (ExitRequested /\ op.confirm_exit /\ ~op.accept) =>
        /\ running
        /\ ~Called("quit")
        /\ ~Called("set_default_size")
        /\ default_size = op.before

\* C15: once set_status has been called, the title is "D-RATS: <callsign>"
\* and the call bar holds exactly one entry, the callsign, for the callsign
\* the configuration holds now.
C15_BannerShowsCurrentCallsign ==
    last_status # 0 =>
        /\ title = "D-RATS: " \o callsign
        /\ callbar = <<callsign>>

\* C16: a tick changes neither the status timestamp, the current tab key, the
\* urgency flag nor the identity banner, and a tick that finds the status text
\* cleared leaves the visible state as it is.
C16_TickOnlyClears ==
    [][next_tick' # next_tick =>
          /\ UNCHANGED <<last_status, current_tab, tabs, urgency, active,
                         title, callbar, callsign>>
          /\ statusbar = <<>> => statusbar' = <<>>
          /\ statusbar' \in {statusbar, <<>>}]_vars

C16_Witness ==
    /\ op.name = "__update_status"
    /\ last_status >= StartTime
    /\ op.age > StaleAfter + TickInterval
    /\ op.before = <<>>
    /\ statusbar = <<>>
    /\ title # ""

\* C17: a notice of a tab other than "event" requests playback of that tab's
\* sound resource once if its sound-enabled flag is true and not at all
\* otherwise, whatever the urgency-enabled flag and the focus are.
C17_SoundIffEnabled ==
    (op.name = "_maybe_blink" /\ op.key # "event") =>
        /\ Count(<<"play_sound", soundf(op.key)>>)
              = (IF op.sound_enabled THEN 1 ELSE 0)
        /\ \A i \in 1..Len(calls) :
              calls[i][1] = "play_sound" => calls[i][2] = "sounds." \o op.key

C17_Witness ==
    /\ op.name = "_maybe_blink"
    /\ op.key = "stations"
    /\ op.sound_enabled
    /\ ~op.blink
    /\ calls = << <<"play_sound", "sounds.stations">> >>

\* C18: the ping action requests get-station-list, offers the stations of
\* every port of the reply, and emits ping-station(station, port) once, with
\* what the prompt returned, if and only if the prompt returned a station.
C18_PingIffStationPicked ==
    op.name = "_activate_ping" =>
        /\ calls[1] = <<"get-station-list">>
        /\ calls[2][1] = "prompt_for_station"
        /\ \A i \in 1..Len(op.station_list) :
              \A j \in 1..Len(op.station_list[i][2]) :
                 \E n \in 2..Len(calls[2]) :
                    calls[2][n] = op.station_list[i][2][j]
        /\ IF op.station # ""
           THEN /\ Len(calls) = 3
                /\ calls[3] = <<"ping-station", op.station, op.port>>
           ELSE Len(calls) = 2

C18_Witness ==
    /\ op.name = "_activate_ping"
    /\ op.station_list # <<>>
    /\ op.station = "N3XYZ"
    /\ op.port = "RF1"
    /\ Len(calls) = 3

\* C19: only the tab-switch handler changes the current tab key or which tab
\* counts as selected, and no other handler calls selected() or deselected().
C19_OnlySwitchChangesTab ==
    /\ [][(current_tab' # current_tab \/ tabs' # tabs)
             => op'.name = "_tab_switched"]_vars
    /\ [](op.name # "_tab_switched" => LifecycleCalls = <<>>)

C19_Witness ==
    /\ op.name = "_activate_prefs"
    /\ op.saved
    /\ current_tab = "files"
    /\ SelectedTabs = {"files"}

\* C20: the urgency hint is never set while the window is active; once set it
\* stays set across notices and ticks, and only a focus-in event clears it.
C20_UrgencyOnlyWhileUnfocused ==
    /\ [](~(urgency /\ active))
    /\ [][(urgency /\ ~urgency') => (op'.name = "_got_focus" /\ active')]_vars

C20_Witness ==
    /\ op.name = "__update_status"
    /\ urgency
    /\ ~active

\* C21: every index of the ordering table (0..3) resolves to a key of the
\* registry, so the current key is always one of messages, chat, files and
\* event; "stations" never becomes current and never receives selected() or
\* deselected(), yet it receives reconfigure() and its notices are routed;
\* an index outside the table fails before any lifecycle call and leaves the
\* current key and the selected tabs as they were.
C21_StationsNeverCurrent ==
    /\ [](/\ \A i \in 0..3 :
               _page_name(i) \in {"messages", "chat", "files", "event"} \cap TabKeys
          /\ current_tab \in {"messages", "chat", "files", "event"}
          /\ ~tabs["stations"]
          /\ ~(\E i \in 1..Len(LifecycleCalls) :
                   LifecycleCalls[i][2] = "stations")
          /\ (op.name = "_activate_prefs" /\ op.saved)
                => Count(<<"reconfigure", "stations">>) = 1
          /\ (op.name = "_maybe_blink" /\ op.key = "stations")
                => /\ Called("set_urgency_hint") <=> (op.blink /\ ~op.was_active)
                   /\ Count(<<"play_sound", soundf("stations")>>)
                         = (IF op.sound_enabled THEN 1 ELSE 0)
          /\ (op.name = "_tab_switched" /\ op.page_num \notin 0..3)
                => /\ LifecycleCalls = <<>>
                   /\ Called("raise")
                   /\ current_tab = op.old)
    /\ [][(/\ op'.name = "_tab_switched"
            /\ op'.page_num \notin 0..3
            /\ <<op, calls>>' # <<op, calls>>)
             => UNCHANGED tabvars]_vars

C21_Witness ==
    /\ op.name = "_tab_switched"
    /\ op.page_num = Len(tab_labels)
    /\ op.old = "event"
    /\ current_tab = "event"
    /\ SelectedTabs = {"event"}
    /\ calls = << <<"raise", "IndexError">> >>
====
